---- MODULE Spec2Model ----
(***************************************************************************)
(* MatterTune, src/mattertune/data/mptraj.py: MPTrajDatasetConfig and      *)
(* MPTrajDataset.  A config is constructed, create_dataset() runs the      *)
(* fetch / convert / filter / append loop of MPTrajDataset.__init__, and   *)
(* the finished object answers __getitem__ and __len__.                    *)
(***************************************************************************)
EXTENDS Integers, Sequences, FiniteSets, TLC

VARIABLES config, upstream, ds, ret

vars == <<config, upstream, ds, ret>>

(* ------------------------------ bounds -------------------------------- *)
\* longest upstream split that is enumerated
MaxRecords == 3

(* --------------------------- python values ---------------------------- *)
\* Optional[T]: None is the empty set, a present value x is {x}
None == {}
Some(x) == {x}
The(o) == CHOOSE x \in o : TRUE

\* the two MPTrajDataset objects the caller creates from the config
Insts == {1, 2}

\* set(xs) of a python list
ToSet(xs) == {xs[k] : k \in 1..Len(xs)}

\* ase.data.chemical_symbols[Z] for the species that occur in the pool
chemical_symbols(z) ==
    CASE z = 3 -> "Li"
      [] z = 8 -> "O"
      [] z = 11 -> "Na"

(* --------------------------- configuration ---------------------------- *)
\* MPTrajDatasetConfig: the declared fields; the class defines no validator,
\* so every combination of field values of the declared types is accepted.
MPTrajDatasetConfig(min, max, elems) ==
    [type |-> "mptraj", split |-> "train",
     min_num_atoms |-> min, max_num_atoms |-> max, elements |-> elems]

\* the default of min_num_atoms
DefaultMinNumAtoms == 5

MinChoices == {None, Some(-1), Some(DefaultMinNumAtoms)}
MaxChoices == {None, Some(3), Some(5)}
ElementChoices == {None, Some(<<"Li", "Na", "Li">>)}

(* ---------------------------- raw records ----------------------------- *)
\* A raw record is the dict(entry) of the loop: a function from the field
\* names it has to their values.  positions and forces are lists of rows (a
\* row is abstracted to its index), corrected_total_energy is a numpy array
\* (a list of its elements), stress a 3x3 matrix.
Rows(n) == [k \in 1..n |-> k]

Tensor(yz, zy, xz, zx, xy, yx) ==
    <<<<1, xy, xz>>, <<yx, 2, yz>>, <<zx, zy, 3>>>>

SymStress == Tensor(4, 4, 5, 5, 6, 6)
AsymStress == Tensor(4, 8, 5, 9, 6, 10)

Entry(numbers, nforces, energy, stress) ==
    [f \in {"positions", "numbers", "cell", "corrected_total_energy",
            "forces", "stress"} |->
        CASE f = "positions" -> Rows(Len(numbers))
          [] f = "numbers" -> numbers
          [] f = "cell" -> "cell"
          [] f = "corrected_total_energy" -> energy
          [] f = "forces" -> Rows(nforces)
          [] f = "stress" -> stress]

\* dict without one key
Without(entry, key) == [f \in (DOMAIN entry) \ {key} |-> entry[f]]

Rec3 == Entry(<<3, 3, 8>>, 3, <<-7>>, SymStress)
Rec5 == Entry(<<3, 3, 3, 3, 3>>, 5, <<-9>>, SymStress)
Rec10 == Entry(<<3, 11, 3, 11, 3, 11, 3, 11, 3, 11>>, 10, <<-20>>, AsymStress)
Rec0 == Entry(<<>>, 0, <<0>>, SymStress)
\* malformed: no "forces" field; 3 atoms, one of them O
RecNoForces == Without(Entry(<<3, 8, 3>>, 3, <<-6>>, SymStress), "forces")
\* malformed: 5 atoms but 4 force rows
RecBadForces == Entry(<<3, 3, 3, 3, 3>>, 4, <<-8>>, SymStress)

Pool == {Rec3, Rec5, Rec10, Rec0, RecNoForces, RecBadForces}

\* the splits the source can hold: up to MaxRecords distinct records of the
\* pool, in any order
RECURSIVE SeqsUpTo(_, _)
SeqsUpTo(S, n) ==
    IF n = 0 THEN {<<>>}
    ELSE LET shorter == SeqsUpTo(S, n - 1)
         IN shorter \cup {Append(s, x) : s \in {t \in shorter : Len(t) = n - 1}, x \in S}

Streams ==
    {s \in SeqsUpTo(Pool, MaxRecords) :
        \A j, k \in 1..Len(s) : j # k => s[j] # s[k]}

\* single records for the conversion: every stress tensor over a few values
\* (mirrored entries of equal parity), and the ways a record is malformed
StressPool ==
    {Tensor(yz, zy, xz, zx, xy, yx) :
        yz \in {4, 8}, zy \in {4, 8}, xz \in {5, 9}, zx \in {5, 9},
        xy \in {6, 10}, yx \in {6, 10}}

Fields == {"positions", "numbers", "cell", "corrected_total_energy", "forces", "stress"}

ConvPool ==
    {Entry(<<3, 8>>, 2, <<-5>>, t) : t \in StressPool}
        \cup {Without(Entry(<<3, 8>>, 2, <<-5>>, SymStress), f) : f \in Fields}
        \cup {Entry(<<3, 8>>, 2, e, SymStress) : e \in {<<>>, <<-5, -4>>}}
        \cup {Entry(<<3, 8>>, n, <<-5>>, SymStress) : n \in {0, 1, 3}}
        \cup {[Entry(<<3, 8>>, 2, <<-5>>, SymStress) EXCEPT !["positions"] = Rows(3)]}

(* ----------------------------- conversion ----------------------------- *)
\* faulty variant of full_3x3_to_voigt_6_stress: the off-diagonal components in the
\* order xy, xz, yz
VoigtReordered(s) ==
    <<s[1][1], s[2][2], s[3][3],
      (s[1][2] + s[2][1]) \div 2,
      (s[1][3] + s[3][1]) \div 2,
      (s[2][3] + s[3][2]) \div 2>>

\* ase.stress.full_3x3_to_voigt_6_stress: the diagonal, then the mean of
\* each pair of mirrored off-diagonal entries, in the order yz, xz, xy.
\* (The pool's mirrored entries have equal parity, so the mean is exact.)
full_3x3_to_voigt_6_stress(s) ==
    <<s[1][1], s[2][2], s[3][3],
      (s[2][3] + s[3][2]) \div 2,
      (s[1][3] + s[3][1]) \div 2,
      (s[1][2] + s[2][1]) \div 2>>

Raise(err) == [raised |-> TRUE, error |-> err]
Return(v) == [raised |-> FALSE, value |-> v]

\* MPTrajDataset._load_atoms_from_entry.  Subscripting a missing key raises
\* KeyError; Atoms() raises ValueError when positions and numbers differ in
\* length; .item() raises ValueError unless the array has one element.
\* SinglePointCalculator stores the labels as given: it does not compare the
\* shape of forces with the number of atoms.
_load_atoms_from_entry(entry) ==
    LET has(f) == f \in DOMAIN entry
    IN  IF ~has("positions") \/ ~has("numbers") \/ ~has("cell")
        THEN Raise("KeyError")
        ELSE IF Len(entry["positions"]) # Len(entry["numbers"])
        THEN Raise("ValueError")
        ELSE IF ~has("corrected_total_energy") THEN Raise("KeyError")
        ELSE IF Len(entry["corrected_total_energy"]) # 1 THEN Raise("ValueError")
        ELSE IF ~has("forces") \/ ~has("stress") THEN Raise("KeyError")
        ELSE Return(
            [positions |-> entry["positions"],
             numbers |-> entry["numbers"],
             cell |-> entry["cell"],
             pbc |-> TRUE,
             calc |-> [energy |-> entry["corrected_total_energy"][1],
                       forces |-> entry["forces"],
                       stress |-> full_3x3_to_voigt_6_stress(entry["stress"])]])

\* len(atoms)
AtomsLen(atoms) == Len(atoms.numbers)

\* atoms.get_chemical_symbols()
get_chemical_symbols(atoms) ==
    [k \in 1..Len(atoms.numbers) |-> chemical_symbols(atoms.numbers[k])]

(* ------------------------------ filtering ----------------------------- *)
\* faulty variants of _filter_atoms: the bounds taken as exclusive; the element test
\* turned round; the element test as a proper superset; no upper bound
FilterExclusiveBounds(cfg, atoms) ==
    IF cfg.min_num_atoms # None /\ AtomsLen(atoms) <= The(cfg.min_num_atoms)
    THEN FALSE
    ELSE IF cfg.max_num_atoms # None /\ AtomsLen(atoms) >= The(cfg.max_num_atoms)
    THEN FALSE
    ELSE IF cfg.elements # None
            /\ ~(ToSet(get_chemical_symbols(atoms)) \subseteq ToSet(The(cfg.elements)))
    THEN FALSE
    ELSE TRUE

FilterSubsetReversed(cfg, atoms) ==
    IF cfg.min_num_atoms # None /\ AtomsLen(atoms) < The(cfg.min_num_atoms)
    THEN FALSE
    ELSE IF cfg.max_num_atoms # None /\ AtomsLen(atoms) > The(cfg.max_num_atoms)
    THEN FALSE
    ELSE IF cfg.elements # None
            /\ ~(ToSet(The(cfg.elements)) \subseteq ToSet(get_chemical_symbols(atoms)))
    THEN FALSE
    ELSE TRUE

FilterProperSuperset(cfg, atoms) ==
    IF cfg.min_num_atoms # None /\ AtomsLen(atoms) < The(cfg.min_num_atoms)
    THEN FALSE
    ELSE IF cfg.max_num_atoms # None /\ AtomsLen(atoms) > The(cfg.max_num_atoms)
    THEN FALSE
    ELSE IF cfg.elements # None
            /\ ~(ToSet(get_chemical_symbols(atoms)) \subseteq ToSet(The(cfg.elements))
                 /\ ToSet(get_chemical_symbols(atoms)) # ToSet(The(cfg.elements)))
    THEN FALSE
    ELSE TRUE

FilterNoMax(cfg, atoms) ==
    IF cfg.min_num_atoms # None /\ AtomsLen(atoms) < The(cfg.min_num_atoms)
    THEN FALSE
    ELSE IF cfg.elements # None
            /\ ~(ToSet(get_chemical_symbols(atoms)) \subseteq ToSet(The(cfg.elements)))
    THEN FALSE
    ELSE TRUE

\* MPTrajDataset._filter_atoms
_filter_atoms(cfg, atoms) ==
    IF cfg.min_num_atoms # None /\ AtomsLen(atoms) < The(cfg.min_num_atoms)
    THEN FALSE
    ELSE IF cfg.max_num_atoms # None /\ AtomsLen(atoms) > The(cfg.max_num_atoms)
    THEN FALSE
    ELSE IF cfg.elements # None
            /\ ~(ToSet(get_chemical_symbols(atoms)) \subseteq ToSet(The(cfg.elements)))
    THEN FALSE
    ELSE TRUE

(* ------------------------------ the object ---------------------------- *)
\* An MPTrajDataset that create_dataset() has not been called for yet.
Unborn ==
    [state |-> "unborn", config |-> None, atoms_list |-> <<>>,
     it |-> 0, pbar |-> 0, error |-> "none"]

\* __init__ up to the loop: self.config, the empty atoms_list, the progress
\* bar.  it is the number of entries the for loop has taken from the dataset.
InitSelf(cfg) ==
    [state |-> "loading", config |-> Some(cfg), atoms_list |-> <<>>,
     it |-> 0, pbar |-> 0, error |-> "none"]

\* faulty variants of LoopBody: the structure put in front of the list; a record
\* that fails to convert skipped
LoopBodyPrepend(self, dataset) ==
    LET entry == dataset[self.it + 1]
        r == _load_atoms_from_entry(entry)
    IN  IF r.raised
        THEN [self EXCEPT !.state = "raised", !.error = r.error, !.it = @ + 1]
        ELSE [self EXCEPT
                !.atoms_list = IF _filter_atoms(The(self.config), r.value)
                               THEN <<r.value>> \o @ ELSE @,
                !.it = @ + 1,
                !.pbar = @ + 1]

LoopBodySkip(self, dataset) ==
    LET entry == dataset[self.it + 1]
        r == _load_atoms_from_entry(entry)
    IN  IF r.raised
        THEN [self EXCEPT !.it = @ + 1, !.pbar = @ + 1]
        ELSE [self EXCEPT
                !.atoms_list = IF _filter_atoms(The(self.config), r.value)
                               THEN Append(@, r.value) ELSE @,
                !.it = @ + 1,
                !.pbar = @ + 1]

\* one iteration of the for loop of __init__, on the next entry of dataset;
\* an exception of the conversion leaves the loop and __init__
LoopBody(self, dataset) ==
    LET entry == dataset[self.it + 1]
        r == _load_atoms_from_entry(entry)
    IN  IF r.raised
        THEN [self EXCEPT !.state = "raised", !.error = r.error, !.it = @ + 1]
        ELSE [self EXCEPT
                !.atoms_list = IF _filter_atoms(The(self.config), r.value)
                               THEN Append(@, r.value) ELSE @,
                !.it = @ + 1,
                !.pbar = @ + 1]

\* faulty variant of ListGetitem: a negative index is out of range
ListGetitemNoWrap(list, idx) ==
    IF idx >= 0 /\ idx < Len(list) THEN [raised |-> FALSE, value |-> list[idx + 1]]
    ELSE [raised |-> TRUE, error |-> "IndexError"]

\* list.__getitem__(idx) of python: negative indices count from the end
ListGetitem(list, idx) ==
    LET n == Len(list)
    IN  IF idx >= 0 /\ idx < n THEN Return(list[idx + 1])
        ELSE IF idx < 0 /\ idx >= -n THEN Return(list[n + idx + 1])
        ELSE Raise("IndexError")

\* faulty variant of __getitem__: the entry is taken out of the list (list.pop)
GetitemPop(self, idx) ==
    LET n == Len(self.atoms_list)
        k == IF idx >= 0 THEN idx + 1 ELSE n + idx + 1
    IN  IF k >= 1 /\ k <= n
        THEN [self |-> [self EXCEPT !.atoms_list =
                            SubSeq(@, 1, k - 1) \o SubSeq(@, k + 1, n)],
              out |-> [raised |-> FALSE, value |-> self.atoms_list[k]]]
        ELSE [self |-> self, out |-> [raised |-> TRUE, error |-> "IndexError"]]

\* MPTrajDataset.__getitem__: the object after the call, and the outcome
__getitem__(self, idx) ==
    [self |-> self, out |-> ListGetitem(self.atoms_list, idx)]

\* MPTrajDataset.__len__: the object after the call, and the outcome
__len__(self) ==
    [self |-> self, out |-> Return(Len(self.atoms_list))]

\* faulty variant of Update: atoms_list is one list shared by all the objects
UpdateShared(objs, i, self) ==
    [j \in DOMAIN objs |->
        IF j = i THEN self ELSE [objs[j] EXCEPT !.atoms_list = self.atoms_list]]

\* an assignment through self (self.config = ..., self.atoms_list.append(...))
\* writes the attributes of that object only: atoms_list is created per
\* object in __init__
Update(objs, i, self) == [objs EXCEPT ![i] = self]

Indices == -(MaxRecords + 1)..(MaxRecords + 1)

(* ------------------------------- actions ------------------------------ *)
\* ret is the caller's view of its most recent call: which operation, on
\* which object, and whether it is still running, has returned or has raised.
Call(op, i, idx, status, value) ==
    [op |-> op, inst |-> i, idx |-> idx, status |-> status, value |-> value]

Outcome(op, i, idx, out) ==
    IF out.raised THEN Call(op, i, idx, "raised", out.error)
    ELSE Call(op, i, idx, "returned", out.value)

Init ==
    /\ config = None
    /\ upstream \in Streams
    /\ ds = [i \in Insts |-> Unborn]
    /\ ret = Call("none", 0, 0, "returned", "none")

Busy == \E i \in Insts : ds[i].state = "loading"

\* MPTrajDatasetConfig(min_num_atoms=..., max_num_atoms=..., elements=...)
ConstructConfig ==
    /\ config = None
    /\ \E min \in MinChoices, max \in MaxChoices, elems \in ElementChoices :
          config' = Some(MPTrajDatasetConfig(min, max, elems))
    /\ UNCHANGED <<upstream, ds, ret>>

\* config.create_dataset() enters MPTrajDataset.__init__, which fetches the
\* split and starts the loop
CreateDataset(i) ==
    /\ config # None
    /\ ~Busy
    /\ ds[i].state = "unborn"
    /\ \A j \in Insts : j < i => ds[j].state # "unborn"
    /\ ds' = Update(ds, i, InitSelf(The(config)))
    /\ ret' = Call("create_dataset", i, 0, "pending", "none")
    /\ UNCHANGED <<config, upstream>>

\* for entry in dataset: convert, filter, append, pbar.update(1)
LoopStep(i) ==
    /\ ds[i].state = "loading"
    /\ ds[i].it < Len(upstream)
    /\ LET self == LoopBody(ds[i], upstream)
       IN  /\ ds' = Update(ds, i, self)
           /\ ret' = IF self.state = "raised"
                     THEN Call("create_dataset", i, 0, "raised", self.error)
                     ELSE ret
    /\ UNCHANGED <<config, upstream>>

\* the loop is exhausted: pbar.close(), and create_dataset() returns the object
LoopExit(i) ==
    /\ ds[i].state = "loading"
    /\ ds[i].it = Len(upstream)
    /\ ds' = Update(ds, i, [ds[i] EXCEPT !.state = "ready"])
    /\ ret' = Call("create_dataset", i, 0, "returned", "dataset")
    /\ UNCHANGED <<config, upstream>>

\* dataset[idx]
GetitemCall(i) ==
    /\ ~Busy
    /\ ds[i].state = "ready"
    /\ \E idx \in Indices :
          LET r == __getitem__(ds[i], idx)
          IN  /\ ds' = Update(ds, i, r.self)
              /\ ret' = Outcome("getitem", i, idx, r.out)
    /\ UNCHANGED <<config, upstream>>

\* len(dataset)
LenCall(i) ==
    /\ ~Busy
    /\ ds[i].state = "ready"
    /\ LET r == __len__(ds[i])
       IN  /\ ds' = Update(ds, i, r.self)
           /\ ret' = Outcome("len", i, 0, r.out)
    /\ UNCHANGED <<config, upstream>>

Next ==
    \/ ConstructConfig
    \/ \E i \in Insts : CreateDataset(i)
    \/ \E i \in Insts : LoopStep(i)
    \/ \E i \in Insts : LoopExit(i)
    \/ \E i \in Insts : GetitemCall(i)
    \/ \E i \in Insts : LenCall(i)

Spec == Init /\ [][Next]_vars

\* the same program over a split of one record drawn from ConvPool
InitConv ==
    /\ config = None
    /\ upstream \in {<<e>> : e \in ConvPool}
    /\ ds = [i \in Insts |-> Unborn]
    /\ ret = Call("none", 0, 0, "returned", "none")

SpecConv == InitConv /\ [][Next]_vars

(* ================================ claims =============================== *)
Ready(i) == ds[i].state = "ready"
Cfg(i) == The(ds[i].config)
List(i) == ds[i].atoms_list

\* atom count and distinct element symbols of a raw record
NAtoms(entry) == Len(entry["numbers"])
Symbols(entry) == {chemical_symbols(entry["numbers"][k]) : k \in 1..Len(entry["numbers"])}

\* the three predicates a config can hold, each vacuous when its field is None
PassesMin(cfg, n) == cfg.min_num_atoms = None \/ n >= The(cfg.min_num_atoms)
PassesMax(cfg, n) == cfg.max_num_atoms = None \/ n <= The(cfg.max_num_atoms)
PassesElements(cfg, syms) == cfg.elements = None \/ syms \subseteq ToSet(The(cfg.elements))
Passes(cfg, entry) ==
    /\ PassesMin(cfg, NAtoms(entry))
    /\ PassesMax(cfg, NAtoms(entry))
    /\ PassesElements(cfg, Symbols(entry))

\* the stored structure atoms is the conversion of the raw record entry
IsFrom(atoms, entry) ==
    /\ atoms.numbers = entry["numbers"]
    /\ atoms.positions = entry["positions"]
    /\ "corrected_total_energy" \in DOMAIN entry
    /\ atoms.calc.energy = entry["corrected_total_energy"][1]
    /\ "forces" \in DOMAIN entry
    /\ atoms.calc.forces = entry["forces"]

\* upstream record k has an entry in the atoms_list of object i
Kept(i, k) == \E j \in 1..Len(List(i)) : IsFrom(List(i)[j], upstream[k])

\* C1: after a completed build every stored structure has at least
\* min_num_atoms atoms when that is set and at most max_num_atoms atoms when
\* that is set; the bounds are inclusive: a record with exactly min_num_atoms
\* or exactly max_num_atoms atoms that passes the other predicates is kept.
C1_AtomCountBounds ==
    \A i \in Insts : Ready(i) =>
        /\ \A j \in 1..Len(List(i)) :
              /\ Cfg(i).min_num_atoms # None
                    => Len(List(i)[j].numbers) >= The(Cfg(i).min_num_atoms)
              /\ Cfg(i).max_num_atoms # None
                    => Len(List(i)[j].numbers) <= The(Cfg(i).max_num_atoms)
        /\ \A k \in 1..Len(upstream) :
              /\ Cfg(i).min_num_atoms # None
              /\ NAtoms(upstream[k]) = The(Cfg(i).min_num_atoms)
              /\ PassesMax(Cfg(i), NAtoms(upstream[k]))
              /\ PassesElements(Cfg(i), Symbols(upstream[k]))
              => Kept(i, k)
        /\ \A k \in 1..Len(upstream) :
              /\ Cfg(i).max_num_atoms # None
              /\ NAtoms(upstream[k]) = The(Cfg(i).max_num_atoms)
              /\ PassesMin(Cfg(i), NAtoms(upstream[k]))
              /\ PassesElements(Cfg(i), Symbols(upstream[k]))
              => Kept(i, k)

\* a finished build with min_num_atoms = max_num_atoms = 5 that dropped a
\* 3-atom and a 10-atom record and kept the 5-atom one
C1_Witness ==
    /\ Ready(1)
    /\ Cfg(1).min_num_atoms = Some(5)
    /\ Cfg(1).max_num_atoms = Some(5)
    /\ upstream = <<Rec3, Rec5, Rec10>>
    /\ Len(List(1)) = 1
    /\ Len(List(1)[1].numbers) = 5

\* C2: with elements = E set, a record within the atom-count bounds is kept
\* exactly when its set of distinct element symbols is a subset of set(E):
\* no stored structure has an element outside E, a structure with only some
\* of E or with no element at all is kept, and the duplicates of the
\* configured list do not change what the filter answers.
C2_ElementSubset ==
    \A i \in Insts : Ready(i) /\ Cfg(i).elements # None =>
        LET E == ToSet(The(Cfg(i).elements))
            nodup == [Cfg(i) EXCEPT !.elements = Some(<<"Li", "Na">>)]
        IN  /\ E = {"Li", "Na"}
            /\ \A j \in 1..Len(List(i)) :
                  ToSet(get_chemical_symbols(List(i)[j])) \subseteq E
            /\ \A k \in 1..Len(upstream) :
                  PassesMin(Cfg(i), NAtoms(upstream[k]))
                  /\ PassesMax(Cfg(i), NAtoms(upstream[k]))
                  => (Kept(i, k) <=> Symbols(upstream[k]) \subseteq E)
            /\ \A j \in 1..Len(List(i)) :
                  _filter_atoms(nodup, List(i)[j])
            /\ \A k \in 1..Len(upstream) :
                  LET atoms == _load_atoms_from_entry(upstream[k]).value
                  IN  _filter_atoms(nodup, atoms) = _filter_atoms(Cfg(i), atoms)

\* elements = ["Li", "Na", "Li"]: the Li-only record and the record with no
\* atoms are kept, the record with Li and O is dropped
C2_Witness ==
    /\ Ready(1)
    /\ Cfg(1).elements = Some(<<"Li", "Na", "Li">>)
    /\ Cfg(1).min_num_atoms = None
    /\ upstream = <<Rec5, Rec3, Rec0>>
    /\ Len(List(1)) = 2
    /\ List(1)[1].numbers = Rec5["numbers"]
    /\ List(1)[2].numbers = <<>>

\* C3: after a completed build a record is stored if and only if it passes
\* every predicate present in the config (an absent predicate rejects
\* nothing), and the length of the dataset is the number of upstream records
\* that pass them all.
C3_RetainedIffPasses ==
    \A i \in Insts : Ready(i) =>
        /\ \A k \in 1..Len(upstream) : Kept(i, k) <=> Passes(Cfg(i), upstream[k])
        /\ Len(List(i)) =
              Cardinality({k \in 1..Len(upstream) : Passes(Cfg(i), upstream[k])})

\* all three predicates present, one record passing and two failing
C3_Witness ==
    /\ Ready(1)
    /\ Cfg(1).min_num_atoms = Some(5)
    /\ Cfg(1).max_num_atoms = Some(5)
    /\ Cfg(1).elements # None
    /\ upstream = <<Rec10, Rec5, Rec3>>
    /\ Len(List(1)) = 1

\* the stored structures are, in order, the conversions of a strictly
\* increasing selection of the first n upstream records
RECURSIVE IsSubsequence(_, _, _)
IsSubsequence(list, stream, n) ==
    IF Len(list) = 0 THEN TRUE
    ELSE IF n = 0 THEN FALSE
    ELSE \/ /\ IsFrom(list[Len(list)], stream[n])
            /\ IsSubsequence(SubSeq(list, 1, Len(list) - 1), stream, n - 1)
         \/ IsSubsequence(list, stream, n - 1)

\* C4: at every point of a build and after it, the atoms_list is a
\* subsequence of the records iterated so far: every entry comes from the
\* stream, a record contributes at most one entry, the relative order is the
\* upstream order; so the length is at most the number of raw records. With
\* atom counts 3, 5, 10 and min_num_atoms = 5 alone, the result is the 5-atom
\* record followed by the 10-atom record.
C4_Subsequence ==
    \A i \in Insts :
        /\ IsSubsequence(List(i), upstream, ds[i].it)
        /\ Len(List(i)) <= ds[i].it
        /\ ds[i].it <= Len(upstream)
        /\ (/\ Ready(i)
            /\ upstream = <<Rec3, Rec5, Rec10>>
            /\ Cfg(i) = MPTrajDatasetConfig(Some(5), None, None))
           => /\ Len(List(i)) = 2
              /\ IsFrom(List(i)[1], Rec5)
              /\ IsFrom(List(i)[2], Rec10)

\* the build of the example has finished with two entries
C4_Witness ==
    /\ Ready(1)
    /\ upstream = <<Rec3, Rec5, Rec10>>
    /\ Cfg(1) = MPTrajDatasetConfig(Some(5), None, None)
    /\ Len(List(1)) = 2

\* C5 as stated: indexed access succeeds only for 0 <= index < length, so
\* get(length) and get(-1) both raise, whatever the length.
C5_OnlyNonNegativeIndices ==
    ret.op = "getitem" =>
        (ret.status = "returned"
            <=> (ret.idx >= 0 /\ ret.idx < Len(List(ret.inst))))

\* C5 (amended): indexed access is python list indexing. get(i) succeeds
\* exactly for -length <= i < length, a negative i counting from the end, and
\* raises IndexError otherwise: get(length) raises for every length, get(-1)
\* returns the last entry of a non-empty dataset and raises only on an empty
\* one.
C5_PythonIndexing ==
    ret.op = "getitem" =>
        LET n == Len(List(ret.inst))
        IN  /\ ret.status = "returned" <=> (ret.idx >= -n /\ ret.idx < n)
            /\ ret.status # "returned"
                  => ret.status = "raised" /\ ret.value = "IndexError"
            /\ ret.idx = n => ret.status = "raised"
            /\ (ret.idx = -1 /\ n = 0) => ret.status = "raised"
            /\ (ret.idx = -1 /\ n > 0)
                  => ret.status = "returned" /\ ret.value = List(ret.inst)[n]
            /\ (ret.idx >= 0 /\ ret.idx < n)
                  => ret.value = List(ret.inst)[ret.idx + 1]
            /\ (ret.idx < 0 /\ ret.idx >= -n)
                  => ret.value = List(ret.inst)[n + ret.idx + 1]

\* get(-1) on a dataset of two entries has returned the second
C5_Witness ==
    /\ ret.op = "getitem"
    /\ ret.idx = -1
    /\ ret.status = "returned"
    /\ Len(List(ret.inst)) = 2
    /\ ret.value = List(ret.inst)[2]
    /\ List(ret.inst)[1] # List(ret.inst)[2]

\* the field combinations the configuration table excludes
MaxBelowMin(cfg) ==
    /\ cfg.min_num_atoms # None
    /\ cfg.max_num_atoms # None
    /\ The(cfg.max_num_atoms) < The(cfg.min_num_atoms)
NegativeMin(cfg) == cfg.min_num_atoms # None /\ The(cfg.min_num_atoms) < 0

\* C6 as stated: a config with max_num_atoms < min_num_atoms or a negative
\* min_num_atoms is rejected at construction, so none exists and no build
\* runs with one.
C6_InvalidConfigRejected ==
    /\ config # None => ~MaxBelowMin(The(config)) /\ ~NegativeMin(The(config))
    /\ \A i \in Insts : ds[i].state # "unborn"
          => ~MaxBelowMin(Cfg(i)) /\ ~NegativeMin(Cfg(i))

\* C6 (amended): the config class validates no field combination; a config
\* with max_num_atoms < min_num_atoms or a negative min_num_atoms is
\* constructed and built like any other. A completed build with
\* max_num_atoms < min_num_atoms holds no structure, and a negative
\* min_num_atoms rejects nothing.
C6_InvalidConfigBuilds ==
    \A i \in Insts : Ready(i) =>
        /\ MaxBelowMin(Cfg(i)) => List(i) = <<>>
        /\ NegativeMin(Cfg(i)) =>
              \A k \in 1..Len(upstream) :
                  Kept(i, k) <=> /\ PassesMax(Cfg(i), NAtoms(upstream[k]))
                                 /\ PassesElements(Cfg(i), Symbols(upstream[k]))

\* a build with min_num_atoms = 5 and max_num_atoms = 3 has completed over
\* three records, one of them with 5 atoms, and is empty
C6_Witness ==
    /\ Ready(1)
    /\ Cfg(1).min_num_atoms = Some(5)
    /\ Cfg(1).max_num_atoms = Some(3)
    /\ upstream = <<Rec3, Rec5, Rec10>>
    /\ List(1) = <<>>

\* the ways a raw record is malformed
MissingField(entry) == DOMAIN entry # Fields
ForcesMismatch(entry) ==
    /\ "forces" \in DOMAIN entry
    /\ Len(entry["forces"]) # Len(entry["numbers"])

\* C7 as stated: once the loop has taken a malformed record (a missing field,
\* or forces that do not match the atom count) the build has aborted.
C7_MalformedAborts ==
    \A i \in Insts : \A k \in 1..ds[i].it :
        (MissingField(upstream[k]) \/ ForcesMismatch(upstream[k]))
            => ds[i].state = "raised"

\* C7 (amended): a record that lacks a field the conversion reads aborts the
\* whole build at that record with the exception of the conversion, whatever
\* the filter would have said of it: the record is not skipped and
\* create_dataset() returns no dataset. A record whose forces do not match
\* its atom count is not detected: it is converted with the forces as given
\* and kept or dropped by the filter like any other record.
C7_MissingFieldAborts ==
    \A i \in Insts :
        /\ \A k \in 1..ds[i].it :
              MissingField(upstream[k])
                  => /\ ds[i].state = "raised"
                     /\ ds[i].error = "KeyError"
                     /\ ds[i].it = k
        /\ ds[i].state = "raised" => MissingField(upstream[ds[i].it])
        /\ (ret.op = "create_dataset" /\ ret.inst = i)
              => /\ ret.status = "raised" <=> ds[i].state = "raised"
                 /\ ret.status = "returned" <=> Ready(i)
        /\ Ready(i) =>
              \A k \in 1..Len(upstream) :
                  ForcesMismatch(upstream[k]) /\ Passes(Cfg(i), upstream[k])
                      => Kept(i, k)

\* the third record lacks its forces and has 3 atoms where min_num_atoms is
\* 5: the build has raised after converting and storing the two before it
C7_Witness ==
    /\ upstream = <<Rec5, Rec10, RecNoForces>>
    /\ ds[1].state = "raised"
    /\ Cfg(1).min_num_atoms = Some(5)
    /\ Len(List(1)) = 2
    /\ ret.op = "create_dataset"
    /\ ret.inst = 1
    /\ ret.status = "raised"

\* C8: two builds from the one config over the one split end with equal
\* atoms_list (equal length, equal entry at every index), and no step of one
\* build changes the other object.
C8_BuildsAgree ==
    /\ [](Ready(1) /\ Ready(2) =>
            /\ ds[1].config = ds[2].config
            /\ Len(List(1)) = Len(List(2))
            /\ \A j \in 1..Len(List(1)) : List(1)[j] = List(2)[j])
    /\ [][\A i \in Insts :
            (ret'.op = "create_dataset" /\ ret'.inst # i) => ds'[i] = ds[i]]_vars

\* both builds have completed with the same two entries
C8_Witness ==
    /\ Ready(1)
    /\ Ready(2)
    /\ Len(List(1)) = 2
    /\ List(1) = List(2)
    /\ List(1)[1] # List(1)[2]

\* C10: once construction has returned, no step changes the object: len and
\* getitem calls, failing ones included, leave every object and the config as
\* they were, len returns the length of atoms_list and getitem an entry of it.
C10_ImmutableAfterBuild ==
    /\ [][/\ \A i \in Insts : Ready(i) => ds'[i] = ds[i]
          /\ ret'.op \in {"getitem", "len"}
                => ds' = ds /\ config' = config /\ upstream' = upstream]_vars
    /\ [](ret.op = "len"
            => ret.status = "returned" /\ ret.value = Len(List(ret.inst)))
    /\ []((ret.op = "getitem" /\ ret.status = "returned")
            => \E j \in 1..Len(List(ret.inst)) : ret.value = List(ret.inst)[j])

\* an out-of-range getitem has failed on a dataset of two entries
C10_Witness ==
    /\ ret.op = "getitem"
    /\ ret.status = "raised"
    /\ Ready(ret.inst)
    /\ Len(List(ret.inst)) = 2

\* the stress tensor of the single raw record
RawStress == upstream[1]["stress"]

\* C9 as stated: the stored stress is the upper triangle of the raw tensor,
\* [S[0][0], S[1][1], S[2][2], S[1][2], S[0][2], S[0][1]].
C9_UpperTriangle ==
    \A i \in Insts : (Ready(i) /\ Len(List(i)) = 1) =>
        List(i)[1].calc.stress =
            <<RawStress[1][1], RawStress[2][2], RawStress[3][3],
              RawStress[2][3], RawStress[1][3], RawStress[1][2]>>

\* C9 (amended): conversion attaches one label set: energy is the single
\* element of corrected_total_energy, forces are the record's forces
\* unchanged, and stress has 6 components in the order xx, yy, zz, yz, xz, xy,
\* each off-diagonal one being the mean of the two mirrored entries of S,
\* (S[1][2] + S[2][1]) / 2 and so on. For a symmetric S that is
\* [S[0][0], S[1][1], S[2][2], S[1][2], S[0][2], S[0][1]], and [1..6] for the
\* tensor of the example.
C9_VoigtMean ==
    \A i \in Insts : (Ready(i) /\ Len(List(i)) = 1) =>
        LET c == List(i)[1].calc
            S == RawStress
        IN  /\ DOMAIN c = {"energy", "forces", "stress"}
            /\ c.energy = upstream[1]["corrected_total_energy"][1]
            /\ c.forces = upstream[1]["forces"]
            /\ Len(c.stress) = 6
            /\ c.stress[1] = S[1][1] /\ c.stress[2] = S[2][2] /\ c.stress[3] = S[3][3]
            /\ 2 * c.stress[4] = S[2][3] + S[3][2]
            /\ 2 * c.stress[5] = S[1][3] + S[3][1]
            /\ 2 * c.stress[6] = S[1][2] + S[2][1]
            /\ (S[2][3] = S[3][2] /\ S[1][3] = S[3][1] /\ S[1][2] = S[2][1])
                  => c.stress = <<S[1][1], S[2][2], S[3][3], S[2][3], S[1][3], S[1][2]>>
            /\ S = SymStress => c.stress = <<1, 2, 3, 4, 5, 6>>

\* the record with the tensor of the example is stored with stress [1..6]
C9_Witness ==
    /\ Ready(1)
    /\ RawStress = SymStress
    /\ Len(List(1)) = 1
    /\ List(1)[1].calc.stress = <<1, 2, 3, 4, 5, 6>>

====
